---- MODULE Spec2Model ----
(***************************************************************************)
(* dataparser.py: fetch the announcement listings of SGX and (optionally)  *)
(* Bursa Malaysia, filter them by company name, download each filtered     *)
(* announcement, extract its text and key lines, write one JSON report.    *)
(*                                                                         *)
(* Python strings are modelled as sequences of one-character strings, so   *)
(* that slicing, splitting, stripping, case folding and substitution are   *)
(* computed character by character as the code computes them.              *)
(***************************************************************************)
EXTENDS Integers, Sequences, FiniteSets, TLC

VARIABLES run, twin, unit

vars == <<run, twin, unit>>

(* ----------------------------- bounds -------------------------------- *)

\* rows of a listing page handed to a fetcher
MaxRows == 4
\* text pieces of an input of the extract_key_lines unit check
MaxPieces == 3
\* largest max_lines of the extract_key_lines unit check
MaxN == 3

(* ------------------------ Python string helpers ---------------------- *)

None == "<None>"

\* Python truthiness of an optional string (None and "" are falsy)
Truthy(x) == x # None /\ x # ""

Min(a, b) == IF a < b THEN a ELSE b

Last(s) == s[Len(s)]

UpperCase == <<"A","B","C","D","E","F","G","H","I","J","K","L","M","N","O","P","Q","R","S","T","U","V","W","X","Y","Z">>
LowerCase == <<"a","b","c","d","e","f","g","h","i","j","k","l","m","n","o","p","q","r","s","t","u","v","w","x","y","z">>

\* str.lower() of one character
LowerChar(c) ==
    IF \E k \in 1..Len(UpperCase) : UpperCase[k] = c
    THEN LowerCase[CHOOSE k \in 1..Len(UpperCase) : UpperCase[k] = c]
    ELSE c

\* str.lower()
Lower(s) == [k \in 1..Len(s) |-> LowerChar(s[k])]

\* characters str.strip() removes and str.splitlines() breaks at
LineBreaks == {"\n", "\r", "\f"}
Whitespace == {" ", "\t"} \cup LineBreaks

\* s[:n]
Take(s, n) == SubSeq(s, 1, Min(n, Len(s)))

\* s[n:]  (n counted from 0)
Drop(s, n) == SubSeq(s, n + 1, Len(s))

\* str.startswith
StartsWith(s, p) == Len(p) <= Len(s) /\ SubSeq(s, 1, Len(p)) = p

\* str.endswith
EndsWith(s, p) == Len(p) <= Len(s) /\ SubSeq(s, Len(s) - Len(p) + 1, Len(s)) = p

RECURSIVE LStrip(_)
LStrip(s) == IF s # << >> /\ Head(s) \in Whitespace THEN LStrip(Tail(s)) ELSE s

RECURSIVE RStrip(_)
RStrip(s) ==
    IF s # << >> /\ Last(s) \in Whitespace THEN RStrip(SubSeq(s, 1, Len(s) - 1)) ELSE s

\* str.strip()
Strip(s) == RStrip(LStrip(s))

\* str.splitlines(): break at \n, \r, \f and at \r\n as one break; no
\* empty last line after a final break
RECURSIVE SplitLinesFrom(_, _)
SplitLinesFrom(s, cur) ==
    IF s = << >> THEN (IF cur = << >> THEN << >> ELSE <<cur>>)
    ELSE IF Head(s) \in LineBreaks
         THEN LET rest == IF Head(s) = "\r" /\ Len(s) >= 2 /\ s[2] = "\n"
                          THEN Drop(s, 2) ELSE Tail(s)
              IN  <<cur>> \o SplitLinesFrom(rest, << >>)
         ELSE SplitLinesFrom(Tail(s), Append(cur, Head(s)))

SplitLines(s) == SplitLinesFrom(s, << >>)

\* s.split("/")[-1]: what follows the last "/"
RECURSIVE LastSegment(_)
LastSegment(s) ==
    IF s = << >> THEN << >>
    ELSE IF Last(s) = "/" THEN << >>
    ELSE Append(LastSegment(SubSeq(s, 1, Len(s) - 1)), Last(s))

(* --------------------------- regular expressions --------------------- *)

\* A compiled pattern is a set of alternatives; an alternative is a sequence
\* of atoms; an atom is a literal character or the wildcard ".".
Lit(c) == [any |-> FALSE, ch |-> c]
AnyChar == [any |-> TRUE, ch |-> "."]

\* a name used as a pattern as it is: "." is the wildcard
Unescaped(s) == [k \in 1..Len(s) |-> IF s[k] = "." THEN AnyChar ELSE Lit(s[k])]

\* re.escape: every character stands for itself
ReEscape(s) == [k \in 1..Len(s) |-> Lit(s[k])]

\* one atom against one character, under re.IGNORECASE or not
AtomMatches(a, c, ignorecase) ==
    IF a.any THEN c # "\n"
    ELSE IF ignorecase THEN LowerChar(a.ch) = LowerChar(c) ELSE a.ch = c

MatchesAt(alt, s, pos, ignorecase) ==
    /\ pos + Len(alt) - 1 <= Len(s)
    /\ \A k \in 1..Len(alt) : AtomMatches(alt[k], s[pos + k - 1], ignorecase)

\* re.compile(...): the alternatives and whether re.IGNORECASE / (?i) is set
Compile(alts, ignorecase) == [alts |-> alts, ignorecase |-> ignorecase]

\* pattern.search(s): some alternative matches at some position
Search(pattern, s) ==
    \E alt \in pattern.alts : \E pos \in 1..(Len(s) + 1) :
        MatchesAt(alt, s, pos, pattern.ignorecase)

(* ------------------------ module-level configuration ----------------- *)

\* args: [company_name, bursa_code], as argparse returns them

COMPANY_NAME(args) == Strip(args.company_name)

WordChars ==
    {UpperCase[k] : k \in 1..Len(UpperCase)} \cup {LowerCase[k] : k \in 1..Len(LowerCase)}
    \cup {"0","1","2","3","4","5","6","7","8","9","_"}

\* re.sub(r"\W+", "_", s): every run of non-word characters becomes one "_"
RECURSIVE SubNonWordRuns(_, _)
SubNonWordRuns(s, inrun) ==
    IF s = << >> THEN << >>
    ELSE IF Head(s) \in WordChars THEN <<Head(s)>> \o SubNonWordRuns(Tail(s), FALSE)
    ELSE IF inrun THEN SubNonWordRuns(Tail(s), TRUE)
    ELSE <<"_">> \o SubNonWordRuns(Tail(s), TRUE)

COMPANY_SLUG(args) == SubNonWordRuns(Lower(COMPANY_NAME(args)), FALSE)

BURSA_CODE(args) == args.bursa_code

SGX_ANNOUNCE_URL == <<"h","t","t","p","s",":","/","/","w","w","w",".","s","g","x",".","c","o","m","/","a","n","n","o","u","n","c","e","m","e","n","t","s","?","t","=","l","a","t","e","s","t">>

SGX_ORIGIN == <<"h","t","t","p","s",":","/","/","w","w","w",".","s","g","x",".","c","o","m">>

BURSA_BASE_URL == <<"h","t","t","p","s",":","/","/","w","w","w",".","b","u","r","s","a","m","a","l","a","y","s","i","a",".","c","o","m">>

BURSA_LISTING_PATH == <<"/","m","a","r","k","e","t","_","i","n","f","o","r","m","a","t","i","o","n","/","a","n","n","o","u","n","c","e","m","e","n","t","s","/","c","o","m","p","a","n","y","_","a","n","n","o","u","n","c","e","m","e","n","t">>

\* a plausible slip: the code is bound into the listing request
BURSA_ANNOUNCE_URL_WithCode(args) ==
    IF Truthy(BURSA_CODE(args))
    THEN BURSA_BASE_URL \o BURSA_LISTING_PATH \o <<"?","s","t","o","c","k","_","c","o","d","e","=">> \o <<BURSA_CODE(args)>>
    ELSE << >>

\* a plausible slip: the listing URL is set whether or not a code was given
BURSA_ANNOUNCE_URL_Always(args) == BURSA_BASE_URL \o BURSA_LISTING_PATH

\* None (no code) is modelled by the empty string: both are falsy at line 84
BURSA_ANNOUNCE_URL(args) ==
    IF Truthy(BURSA_CODE(args)) THEN BURSA_BASE_URL \o BURSA_LISTING_PATH ELSE << >>

DOWNLOAD_DIR == <<"d","o","w","n","l","o","a","d","s">>

OUTPUT_JSON(args) == COMPANY_SLUG(args) \o <<"_","a","n","n","o","u","n","c","e","m","e","n","t","s",".","j","s","o","n">>

\* a plausible slip: re.compile(COMPANY_NAME), neither escaped nor
\* case-insensitive
KEYWORDS_Plain(args) == Compile({Unescaped(COMPANY_NAME(args))}, FALSE)

\* re.compile(re.escape(COMPANY_NAME), re.IGNORECASE)
KEYWORDS(args) == Compile({ReEscape(COMPANY_NAME(args))}, TRUE)

(* ------------------------------- HTTP -------------------------------- *)

\* a plausible slip: the status of a response is never looked at
RaiseForStatus_Never(status) == FALSE

\* Response.raise_for_status(): raises HTTPError on a 4xx or 5xx status
RaiseForStatus(status) == status >= 400 /\ status < 600

UA_HEADERS == [h \in {"User-Agent"} |-> <<"M","o","z","i","l","l","a","/","5",".","0">>]

\* requests.Session() after session.headers.update(...)
BURSA_SESSION_HEADERS ==
    [h \in {"User-Agent", "Accept", "Accept-Language", "Referer", "Connection"} |->
        CASE h = "User-Agent" ->
               <<"M","o","z","i","l","l","a","/","5",".","0"," ","(","W","i","n","d","o","w","s"," ","N","T"," ","1","0",".","0",";"," ","W","i","n","6","4",";"," ","x","6","4",")"," ","A","p","p","l","e","W","e","b","K","i","t","/","5","3","7",".","3","6"," ","(","K","H","T","M","L",","," ","l","i","k","e"," ","G","e","c","k","o",")"," ","C","h","r","o","m","e","/","1","1","4",".","0",".","5","7","3","5",".","1","1","0"," ","S","a","f","a","r","i","/","5","3","7",".","3","6">>
          [] h = "Accept" -> <<"t","e","x","t","/","h","t","m","l",",","a","p","p","l","i","c","a","t","i","o","n","/","x","h","t","m","l","+","x","m","l",",","a","p","p","l","i","c","a","t","i","o","n","/","x","m","l",";","q","=","0",".","9",",","*","/","*",";","q","=","0",".","8">>
          [] h = "Accept-Language" -> <<"e","n","-","U","S",",","e","n",";","q","=","0",".","9">>
          [] h = "Referer" -> BURSA_BASE_URL \o <<"/">>
          [] h = "Connection" -> <<"k","e","e","p","-","a","l","i","v","e">>]

\* one HTTP GET as it leaves the program
Request(url, headers, cookies) == [url |-> url, headers |-> headers, cookies |-> cookies]

\* an exception no handler catches leaves main: the process ends
Abort(s) == [s EXCEPT !.pc = "aborted"]

\* history of the run: one entry per step of main, in the order taken
\* (status: the HTTP status the step received, 0 when it received none)
Event(s, op, ok, status) ==
    [s EXCEPT !.events = Append(@, [op |-> op, i |-> s.i, ok |-> ok, status |-> status])]

(* ------------------------------ fetchers ----------------------------- *)

\* the loop over soup.select(".views-row"); a row is what the parsed item
\* holds: [anchor, href, text, hasdate, date]
RECURSIVE SgxRows(_)
SgxRows(rows) ==
    IF rows = << >> THEN << >>
    ELSE LET item == Head(rows)
             link == IF StartsWith(item.href, <<"h","t","t","p">>) THEN item.href
                     ELSE SGX_ORIGIN \o item.href
         IN  IF ~item.anchor \/ item.href = << >> THEN SgxRows(Tail(rows))
             ELSE << [source |-> "SGX",
                      title  |-> Strip(item.text),
                      link   |-> link,
                      date   |-> IF item.hasdate THEN Strip(item.date) ELSE << >>] >>
                  \o SgxRows(Tail(rows))

\* resp: [status, rows] of the listing page
fetch_sgx_announcements(s, resp) ==
    LET s1 == Event([s EXCEPT !.requests =
                        Append(@, Request(SGX_ANNOUNCE_URL, UA_HEADERS, << >>))],
                    "fetch_sgx", ~RaiseForStatus(resp.status), resp.status)
    IN  IF RaiseForStatus(resp.status)
        THEN Abort(s1)
        ELSE [s1 EXCEPT !.sgx = SgxRows(resp.rows), !.pc = "fetch_bursa"]

\* a plausible slip: the listing is requested without the warm-up request
fetch_bursa_guard_nowarmup(s) ==
    IF BURSA_ANNOUNCE_URL(s.args) = << >>
    THEN [s EXCEPT !.bursa = << >>, !.pc = "filter"]
    ELSE [s EXCEPT !.session = [headers |-> BURSA_SESSION_HEADERS, cookies |-> << >>],
                   !.pc = "bursa_listing"]

\* lines 84-98: nothing to do without a listing URL, else a session is set up
fetch_bursa_guard(s) ==
    IF BURSA_ANNOUNCE_URL(s.args) = << >>
    THEN [s EXCEPT !.bursa = << >>, !.pc = "filter"]
    ELSE [s EXCEPT !.session = [headers |-> BURSA_SESSION_HEADERS, cookies |-> << >>],
                   !.pc = "bursa_warmup"]

\* line 101: session.get(BURSA_BASE_URL + "/").raise_for_status();
\* resp: [status, cookies]; the session keeps the cookies the response sets
fetch_bursa_warmup(s, resp) ==
    LET s1 == Event([s EXCEPT !.requests =
                        Append(@, Request(BURSA_BASE_URL \o <<"/">>, s.session.headers,
                                          s.session.cookies)),
                              !.session.cookies = resp.cookies],
                    "bursa_warmup", ~RaiseForStatus(resp.status), resp.status)
    IN  IF RaiseForStatus(resp.status)
        THEN Abort(s1)
        ELSE [s1 EXCEPT !.pc = "bursa_listing"]

\* the loop over soup.select("table.data-table tbody tr"); a row is
\* [ncols, date, anchor, href, text]
RECURSIVE BursaRows(_)
BursaRows(rows) ==
    IF rows = << >> THEN << >>
    ELSE LET row  == Head(rows)
             link == IF StartsWith(row.href, <<"h","t","t","p">>) THEN row.href
                     ELSE BURSA_BASE_URL \o row.href
         IN  IF row.ncols < 2 THEN BursaRows(Tail(rows))
             ELSE IF ~row.anchor \/ row.href = << >> THEN BursaRows(Tail(rows))
             ELSE << [source |-> "Bursa",
                      title  |-> Strip(row.text),
                      link   |-> link,
                      date   |-> Strip(row.date)] >>
                  \o BursaRows(Tail(rows))

\* lines 103-125; resp: [status, rows]
fetch_bursa_listing(s, resp) ==
    LET s1 == Event([s EXCEPT !.requests =
                        Append(@, Request(BURSA_ANNOUNCE_URL(s.args), s.session.headers,
                                          s.session.cookies))],
                    "bursa_listing", ~RaiseForStatus(resp.status), resp.status)
    IN  IF RaiseForStatus(resp.status)
        THEN Abort(s1)
        ELSE [s1 EXCEPT !.bursa = BursaRows(resp.rows), !.pc = "filter"]

(* --------------------- filter, download and parse -------------------- *)

\* [a for a in anns if KEYWORDS.search(a["title"])]
filter_announcements(anns, args) ==
    SelectSeq(anns, LAMBDA a : Search(KEYWORDS(args), a.title))

\* ann['title'][:30]
TitleCut == 30

UnsafeChars == {"\\", "/", "*", "?", "\"", "<", ">", "|"}

\* a plausible slip: re.sub(..., count=1) replaces the first occurrence only
RECURSIVE SanitizeFirstOnly(_)
SanitizeFirstOnly(fn) ==
    IF fn = << >> THEN << >>
    ELSE IF Head(fn) \in UnsafeChars THEN <<"_">> \o Tail(fn)
    ELSE <<Head(fn)>> \o SanitizeFirstOnly(Tail(fn))

\* re.sub(r"[\\/*?\"<>|]", "_", fn)
Sanitize(fn) == [k \in 1..Len(fn) |-> IF fn[k] \in UnsafeChars THEN "_" ELSE fn[k]]

\* lines 140-141
FileName(ann) ==
    LET seg == LastSegment(ann.link)
        fn  == IF seg # << >> THEN seg
               ELSE ann.date \o <<"_">> \o Take(ann.title, TitleCut) \o <<".","h","t","m","l">>
    IN  Sanitize(fn)

\* os.path.join (posixpath)
PathJoin(a, b) ==
    IF StartsWith(b, <<"/">>) THEN b
    ELSE IF a = << >> \/ Last(a) = "/" THEN a \o b
    ELSE a \o <<"/">> \o b

\* os.path.basename (posixpath)
Basename(p) == LastSegment(p)

\* a plausible slip: the handler ends the loop instead of going on
main_except_break(s, kind) ==
    [s EXCEPT !.outcomes = Append(@, kind), !.i = Len(s.filtered) + 1, !.pc = "for"]

\* a plausible slip: no handler around the per-announcement sequence
main_except_uncaught(s, kind) == Abort([s EXCEPT !.outcomes = Append(@, kind)])

\* lines 213-214: the handler of the per-announcement try; the loop goes on
\* with the next announcement
main_except(s, kind) ==
    [s EXCEPT !.outcomes = Append(@, kind), !.i = @ + 1, !.pc = "for"]

\* resp: [fault, status, doc]; fault is where the environment fails the call:
\* "makedirs" (os.makedirs raises), "connect" (requests.get raises),
\* "write" (open or write raises) or "none"
download_file(s, resp) ==
    LET ann  == s.filtered[s.i]
        req  == Request(ann.link, UA_HEADERS, << >>)
        path == PathJoin(DOWNLOAD_DIR, FileName(ann))
        sent == [s EXCEPT !.requests = Append(@, req)]
    IN  IF resp.fault = "makedirs" THEN main_except(Event(s, "download_file", FALSE, 0), "OSError")
        ELSE IF resp.fault = "connect"
             THEN main_except(Event(sent, "download_file", FALSE, 0), "ConnectionError")
        ELSE IF RaiseForStatus(resp.status)
             THEN main_except(Event(sent, "download_file", FALSE, resp.status), "HTTPError")
        ELSE IF resp.fault = "write"
             THEN main_except(Event(sent, "download_file", FALSE, resp.status), "OSError")
        ELSE [Event(sent, "download_file", TRUE, resp.status) EXCEPT
                 !.files = [p \in DOMAIN @ \cup {path} |-> IF p = path THEN resp.doc ELSE @[p]],
                 !.path = path,
                 !.pc = "extract_text"]

\* the loop over pdf.pages inside the try: a page is [raises, txt]; txt is
\* empty when pg.extract_text() returns None or ""
RECURSIVE PdfPages(_, _)
PdfPages(pages, text) ==
    IF pages = << >> THEN [text |-> text, error |-> FALSE]
    ELSE IF Head(pages).raises THEN [text |-> text, error |-> TRUE]
    ELSE IF Head(pages).txt # << >>
         THEN PdfPages(Tail(pages), text \o Head(pages).txt \o <<"\n">>)
    ELSE PdfPages(Tail(pages), text)

\* open(path, "r", encoding="utf-8", errors="ignore").read(): the bytes that
\* do not decode are dropped
UndecodableBytes == {"\\xff", "\\xfe"}

Decode(bytes) == SelectSeq(bytes, LAMBDA b : b \notin UndecodableBytes)

\* extract_text(path) on the file download_file wrote; doc: [bytes, corrupt,
\* pages]; unreadable: the environment fails the open of the file.
\* Returns [text, error]: error tells whether an except branch ran.
ExtractText(path, doc, unreadable) ==
    IF EndsWith(Lower(path), <<".","p","d","f">>)
    THEN IF unreadable \/ doc.corrupt THEN [text |-> << >>, error |-> TRUE]
         ELSE PdfPages(doc.pages, << >>)
    ELSE IF unreadable THEN [text |-> << >>, error |-> TRUE]
         ELSE [text |-> Decode(doc.bytes), error |-> FALSE]

\* history of the run: what each call of extract_text was given and returned
Extracted(s, r, unreadable) ==
    [s EXCEPT !.extracted = Append(@, [i |-> s.i, path |-> s.path, doc |-> s.files[s.path],
                                       unreadable |-> unreadable,
                                       error |-> r.error, text |-> r.text])]

\* a plausible slip: an extraction error is not caught in extract_text and
\* reaches the handler of main
extract_text_uncaught(s, unreadable) ==
    LET r == ExtractText(s.path, s.files[s.path], unreadable)
    IN  IF r.error
        THEN main_except(Event(Extracted(s, r, unreadable), "extract_text", FALSE, 0),
                         "ExtractionError")
        ELSE [Event(Extracted(s, r, unreadable), "extract_text", TRUE, 0) EXCEPT
                 !.text = r.text, !.pc = "extract_key_lines"]

\* line 202
extract_text(s, unreadable) ==
    LET r == ExtractText(s.path, s.files[s.path], unreadable)
    IN  [Event(Extracted(s, r, unreadable), "extract_text", TRUE, 0) EXCEPT
            !.text = r.text, !.pc = "extract_key_lines"]

\* extract_key_lines(text, max_lines=5)
MaxLinesDefault == 5

KeyLinePattern(args) ==
    Compile({ReEscape(<<"s","h","a","r","e","h","o","l","d","e","r">>), ReEscape(<<"d","i","r","e","c","t","o","r">>), ReEscape(<<"b","o","a","r","d">>),
             ReEscape(COMPANY_NAME(args))}, TRUE)

\* a plausible slip: the slice [:max_lines] left out
extract_key_lines_uncut(text, max_lines, args) ==
    LET lines == SelectSeq(SplitLines(text), LAMBDA ln : Search(KeyLinePattern(args), ln))
    IN  [k \in 1..Len(lines) |-> Strip(lines[k])]

extract_key_lines(text, max_lines, args) ==
    LET lines   == SplitLines(text)
        kept    == SelectSeq(lines, LAMBDA ln : Search(KeyLinePattern(args), ln))
        matches == [k \in 1..Len(kept) |-> Strip(kept[k])]
    IN  Take(matches, max_lines)

(* ------------------------------- main -------------------------------- *)

\* lines 193-197
main_filter(s) ==
    LET all_anns == s.sgx \o s.bursa
    IN  [Event(s, "filter", TRUE, 0) EXCEPT
            !.all_anns = all_anns,
            !.filtered = filter_announcements(all_anns, s.args),
            !.results = << >>,
            !.i = 1,
            !.pc = "for"]

\* line 198: the next announcement, or the end of the loop
main_for(s) ==
    IF s.i <= Len(s.filtered) THEN [s EXCEPT !.pc = "download_file"]
    ELSE [s EXCEPT !.pc = "write"]

\* line 203
main_key_lines(s) ==
    [Event(s, "extract_key_lines", TRUE, 0) EXCEPT
        !.kl = extract_key_lines(s.text, MaxLinesDefault, s.args),
        !.pc = "append"]

\* lines 204-212
main_append(s) ==
    LET ann == s.filtered[s.i]
    IN  [Event(s, "append", TRUE, 0) EXCEPT
            !.results = Append(@, [date |-> ann.date, source |-> ann.source,
                                   title |-> ann.title, link |-> ann.link,
                                   file |-> Basename(s.path), key_lines |-> s.kl]),
            !.outcomes = Append(@, "ok"),
            !.i = @ + 1,
            !.pc = "for"]

\* lines 217-218: json.dump(results, f) into OUTPUT_JSON
main_write(s) ==
    [Event(s, "write", TRUE, 0) EXCEPT
        !.output = [name |-> OUTPUT_JSON(s.args), content |-> s.results],
        !.written = @ + 1,
        !.pc = "done"]

(* --------------------------- the environment ------------------------- *)

\* values of --company-name and --bursa-code
CompanyNames == { <<" ","A","c","m","e"," ">>, <<"a",".","c">> }

BursaCodes == { None, "", "5183" }

\* the code of the second run it is compared with: equally present or absent
OtherCode(code) ==
    CASE code = None -> ""
      [] code = "" -> None
      [] OTHER -> "0172"

\* rows of the SGX listing page, as the HTML parser hands them over
SgxCatalogue ==
    << [anchor |-> TRUE, href |-> <<"/","d","o","c","s","/","B","o","a","r","d",".","P","d","f">>,
        text |-> <<" ","A","c","m","e"," ","C","o","r","p"," ","-"," ","B","o","a","r","d"," ","C","h","a","n","g","e","s"," ">>, hasdate |-> TRUE, date |-> <<" ","0","1"," ","J","a","n"," ","2","0","2","4">>],
       [anchor |-> TRUE, href |-> << >>,
        text |-> <<"A","c","m","e"," ","w","i","t","h","o","u","t"," ","l","i","n","k">>, hasdate |-> FALSE, date |-> << >>],
       [anchor |-> TRUE, href |-> <<"h","t","t","p","s",":","/","/","w","w","w",".","s","g","x",".","c","o","m","/","o",".","p","d","f">>,
        text |-> <<"O","t","h","e","r"," ","C","o">>, hasdate |-> FALSE, date |-> << >>],
       [anchor |-> TRUE, href |-> <<"h","t","t","p","s",":","/","/","l","i","n","k","s",".","s","g","x",".","c","o","m","/","f","i","l","e","/">>,
        text |-> <<"N","o","t","i","c","e",":"," ","<","A","C","M","E",">"," ","\"","A","G","M","\""," ","/"," ","a",".","c","."," ","s","h","a","r","e","h","o","l","d","e","r","s","|","d","i","r","e","c","t","o","r","s">>,
        hasdate |-> TRUE, date |-> <<"0","2","/","0","1","/","2","0","2","4">>],
       [anchor |-> FALSE, href |-> << >>,
        text |-> << >>, hasdate |-> FALSE, date |-> << >>] >>

\* rows of the Bursa listing table
BursaCatalogue ==
    << [ncols |-> 2, date |-> <<"0","3"," ","J","a","n"," ","2","0","2","4">>, anchor |-> TRUE,
        href |-> <<"/","a","n","n","/","r","?","v","=","1",".","h","t","m">>, text |-> <<"A","C","M","E"," ","a",".","c","."," ","r","e","s","u","l","t","s">>],
       [ncols |-> 1, date |-> <<"0","3"," ","J","a","n"," ","2","0","2","4">>, anchor |-> FALSE,
        href |-> << >>, text |-> << >>],
       [ncols |-> 2, date |-> <<"0","4"," ","J","a","n"," ","2","0","2","4">>, anchor |-> TRUE,
        href |-> <<"/","a","n","n","/","a","b","c","/">>, text |-> <<"a","b","c"," ","n","e","w","s">>],
       [ncols |-> 3, date |-> <<"0","5"," ","J","a","n"," ","2","0","2","4">>, anchor |-> FALSE,
        href |-> << >>, text |-> <<"n","o"," ","a","n","c","h","o","r">>],
       [ncols |-> 2, date |-> <<"0","6"," ","J","a","n"," ","2","0","2","4">>, anchor |-> TRUE,
        href |-> << >>, text |-> <<"A","c","m","e"," ","w","i","t","h","o","u","t"," ","h","r","e","f">>] >>

\* a listing page holds the first rows of the catalogue, at most MaxRows
Pages(catalogue) == { Take(catalogue, n) : n \in 0..MaxRows }

SgxResponses ==
    { [status |-> 200, rows |-> p] : p \in Pages(SgxCatalogue) }
    \cup { [status |-> st, rows |-> << >>] : st \in {404, 503} }

WarmupResponses ==
    { [status |-> 200, cookies |-> <<"s","i","d","=","1">>],
      [status |-> 200, cookies |-> << >>],
      [status |-> 403, cookies |-> << >>] }

BursaResponses ==
    { [status |-> 200, rows |-> p] : p \in Pages(BursaCatalogue) }
    \cup { [status |-> st, rows |-> << >>] : st \in {403, 500} }

\* documents behind the links: the bytes of the body, and what pdfplumber
\* makes of them (corrupt: open raises; else the pages)
HtmlDoc ==
    [bytes |-> <<"<","p",">","\n","D","i","r","e","c","t","o","r"," ","J","o","h","n"," ","D","o","e"," ","r","e","s","i","g","n","e","d"," ","\r","\n","A","c","m","e">> \o <<"\\xff">> \o <<" ","o","k","\n","<","/","p",">">>,
     corrupt |-> TRUE, pages |-> << >>]

BrokenPdf ==
    [bytes |-> <<"%","P","D","F">> \o <<"\\xfe">>,
     corrupt |-> FALSE,
     pages |-> << [raises |-> FALSE, txt |-> <<"T","h","e"," ","B","o","a","r","d"," ","m","e","t","\n","n","o","t","h","i","n","g">>],
                  [raises |-> FALSE, txt |-> << >>],
                  [raises |-> TRUE,  txt |-> << >>],
                  [raises |-> FALSE, txt |-> <<"d","i","r","e","c","t","o","r">>] >>]

LongPdf ==
    [bytes |-> <<"b","o","a","r","d","\n"," ","d","i","r","e","c","t","o","r"," ","\n","s","h","a","r","e","h","o","l","d","e","r","\f","B","O","A","R","D","\r","\n","\n","a","c","m","e"," ","a",".","c","\n","b","o","a","r","d"," ","6","\n","x">>,
     corrupt |-> FALSE,
     pages |-> << [raises |-> FALSE, txt |-> <<"b","o","a","r","d","\n"," ","d","i","r","e","c","t","o","r"," ","\n","s","h","a","r","e","h","o","l","d","e","r","\f","B","O","A","R","D">>],
                  [raises |-> FALSE, txt |-> <<"\n","a","c","m","e"," ","a",".","c","\n","b","o","a","r","d"," ","6","\n","x">>] >>]

Docs == { HtmlDoc, BrokenPdf, LongPdf }

DownloadResponses ==
    { [fault |-> "makedirs", status |-> 200, doc |-> HtmlDoc],
      [fault |-> "connect", status |-> 200, doc |-> HtmlDoc],
      [fault |-> "write", status |-> 200, doc |-> HtmlDoc],
      [fault |-> "none", status |-> 404, doc |-> HtmlDoc] }
    \cup { [fault |-> "none", status |-> 200, doc |-> d] : d \in Docs }

\* inputs of the extract_key_lines unit check: texts of at most MaxPieces pieces
Pieces == { <<" ","B","o","a","r","d"," ","\n">>, <<"x","\r","\n">>, <<"d","i","r","e","c","t","o","r">>, <<"\n">>, <<" ","a","c","m","e"," ","c","o","\f">>, <<"a",".","c"," ">> }

RECURSIVE Texts(_)
Texts(n) ==
    IF n = 0 THEN { << >> }
    ELSE Texts(n - 1) \cup { t \o p : t \in Texts(n - 1), p \in Pieces }

(* ------------------------------ the runs ----------------------------- *)

\* the state of the process when main is entered
InitState(args) ==
    [pc |-> "fetch_sgx", args |-> args,
     requests |-> << >>, session |-> [headers |-> << >>, cookies |-> << >>],
     sgx |-> << >>, bursa |-> << >>, all_anns |-> << >>, filtered |-> << >>,
     i |-> 0, path |-> << >>, text |-> << >>, kl |-> << >>,
     files |-> << >>, results |-> << >>,
     output |-> [name |-> << >>, content |-> << >>], written |-> 0,
     events |-> << >>, outcomes |-> << >>, extracted |-> << >>]

NoRun == [InitState([company_name |-> << >>, bursa_code |-> None]) EXCEPT !.pc = "idle"]

InitMain ==
    \E name \in CompanyNames, code \in BursaCodes :
        /\ run = InitState([company_name |-> name, bursa_code |-> code])
        /\ twin = InitState([company_name |-> name, bursa_code |-> OtherCode(code)])
        /\ unit = [phase |-> "off"]

InitUnit ==
    \E name \in CompanyNames, text \in Texts(MaxPieces), n \in 0..MaxN :
        /\ run = NoRun
        /\ twin = NoRun
        /\ unit = [phase |-> "input", args |-> [company_name |-> name, bursa_code |-> None],
                   text |-> text, max_lines |-> n, out |-> << >>]

Init == InitMain \/ InitUnit

At(pc) == run.pc = pc /\ twin.pc = pc

FetchSgx ==
    /\ At("fetch_sgx")
    /\ \E resp \in SgxResponses :
        /\ run' = fetch_sgx_announcements(run, resp)
        /\ twin' = fetch_sgx_announcements(twin, resp)
    /\ UNCHANGED unit

FetchBursaGuard ==
    /\ At("fetch_bursa")
    /\ run' = fetch_bursa_guard(run)
    /\ twin' = fetch_bursa_guard(twin)
    /\ UNCHANGED unit

FetchBursaWarmup ==
    /\ At("bursa_warmup")
    /\ \E resp \in WarmupResponses :
        /\ run' = fetch_bursa_warmup(run, resp)
        /\ twin' = fetch_bursa_warmup(twin, resp)
    /\ UNCHANGED unit

FetchBursaListing ==
    /\ At("bursa_listing")
    /\ \E resp \in BursaResponses :
        /\ run' = fetch_bursa_listing(run, resp)
        /\ twin' = fetch_bursa_listing(twin, resp)
    /\ UNCHANGED unit

Filter ==
    /\ At("filter")
    /\ run' = main_filter(run)
    /\ twin' = main_filter(twin)
    /\ UNCHANGED unit

For ==
    /\ At("for")
    /\ run' = main_for(run)
    /\ twin' = main_for(twin)
    /\ UNCHANGED unit

Download ==
    /\ At("download_file")
    /\ \E resp \in DownloadResponses :
        /\ run' = download_file(run, resp)
        /\ twin' = download_file(twin, resp)
    /\ UNCHANGED unit

ExtractTextStep ==
    /\ At("extract_text")
    /\ \E unreadable \in BOOLEAN :
        /\ run' = extract_text(run, unreadable)
        /\ twin' = extract_text(twin, unreadable)
    /\ UNCHANGED unit

KeyLines ==
    /\ At("extract_key_lines")
    /\ run' = main_key_lines(run)
    /\ twin' = main_key_lines(twin)
    /\ UNCHANGED unit

AppendResult ==
    /\ At("append")
    /\ run' = main_append(run)
    /\ twin' = main_append(twin)
    /\ UNCHANGED unit

Write ==
    /\ At("write")
    /\ run' = main_write(run)
    /\ twin' = main_write(twin)
    /\ UNCHANGED unit

\* extract_key_lines called on its own with any max_lines
UnitKeyLines ==
    /\ unit.phase = "input"
    /\ unit' = [unit EXCEPT !.phase = "output",
                            !.out = extract_key_lines(unit.text, unit.max_lines, unit.args)]
    /\ UNCHANGED <<run, twin>>

Next ==
    \/ FetchSgx
    \/ FetchBursaGuard
    \/ FetchBursaWarmup
    \/ FetchBursaListing
    \/ Filter
    \/ For
    \/ Download
    \/ ExtractTextStep
    \/ KeyLines
    \/ AppendResult
    \/ Write
    \/ UnitKeyLines

Spec == Init /\ [][Next]_vars

(* ------------------------------ properties --------------------------- *)

\* the filtered announcements handled so far, and those that gave a record
Processed(s) == 1..Len(s.outcomes)

Succeeded(s) == { k \in Processed(s) : s.outcomes[k] = "ok" }

\* the record of the k-th filtered announcement, when it succeeded
RecordOf(s, k) == s.results[Cardinality({ j \in Succeeded(s) : j <= k })]

SameAnnouncement(r, a) ==
    r.date = a.date /\ r.source = a.source /\ r.title = a.title /\ r.link = a.link

\* the download of the k-th filtered announcement returned a path
Downloaded(s, k) ==
    \E n \in 1..Len(s.events) :
        s.events[n].op = "download_file" /\ s.events[n].i = k /\ s.events[n].ok

\* C1: the report holds exactly one record for every filtered announcement
\* whose download, extraction and key-line selection raised nothing, in the
\* order of the filtered list, and none for an announcement that failed; a
\* failing announcement does not keep the later ones from being processed.
C1_ReportHoldsTheSuccessfulAnnouncements ==
    /\ Len(run.outcomes) <= Len(run.filtered)
    /\ \A k \in Processed(run) : (k \in Succeeded(run)) <=> Downloaded(run, k)
    /\ Len(run.results) = Cardinality(Succeeded(run))
    /\ \A k \in Succeeded(run) : SameAnnouncement(RecordOf(run, k), run.filtered[k])
    /\ run.pc \in {"write", "done"} => Len(run.outcomes) = Len(run.filtered)
    /\ run.pc = "done" => run.output.content = run.results

\* a finished run whose first announcement met HTTP 404, whose second gave a
\* record and whose third failed on the file system
C1_Witness ==
    /\ run.pc = "done"
    /\ Len(run.outcomes) >= 3
    /\ run.outcomes[1] = "HTTPError"
    /\ run.outcomes[2] = "ok"
    /\ run.outcomes[3] = "OSError"
    /\ Len(run.output.content) = 1

IsPdfPath(path) ==
    Len(path) >= 4 /\ Lower(SubSeq(path, Len(path) - 3, Len(path))) = <<".", "p", "d", "f">>

RECURSIVE PagesText(_, _)
PagesText(pages, n) ==
    IF n = 0 THEN << >>
    ELSE PagesText(pages, n - 1)
         \o (IF pages[n].txt = << >> THEN << >> ELSE Append(pages[n].txt, "\n"))

\* what a failed extraction leaves: the pages before the first one that
\* raised, and nothing when the file could not be opened or parsed at all
TextBeforeFailure(e) ==
    IF IsPdfPath(e.path) /\ ~e.unreadable /\ ~e.doc.corrupt
    THEN LET first == CHOOSE f \in 1..Len(e.doc.pages) :
                         /\ e.doc.pages[f].raises
                         /\ \A g \in 1..(f - 1) : ~e.doc.pages[g].raises
         IN  PagesText(e.doc.pages, first - 1)
    ELSE << >>

FetchOps == {"fetch_sgx", "bursa_warmup", "bursa_listing"}

FailingStatus(status) == status \in 400..599

\* C3: a failing status on the SGX listing, the Bursa warm-up or the Bursa
\* listing request ends the run there: no request follows it, nothing is
\* downloaded and the report is never written.
C3_FailedFetchAbortsTheRun ==
    \A n \in 1..Len(run.events) :
        LET e == run.events[n]
        IN  (e.op \in FetchOps /\ FailingStatus(e.status)) =>
              /\ n = Len(run.events)
              /\ Len(run.requests) = n
              /\ run.pc = "aborted"
              /\ run.written = 0
              /\ run.output.name = << >>
              /\ DOMAIN run.files = {}
              /\ run.results = << >>

\* the warm-up request met a failing status after the SGX listing succeeded
C3_Witness ==
    /\ run.pc = "aborted"
    /\ Len(run.events) = 2
    /\ run.events[2].op = "bursa_warmup"
    /\ run.events[2].status = 403

\* C4, the safety half, in every state: the report is written at most once,
\* and only when every filtered announcement has been processed
ReportWrittenOnceAtTheEnd ==
    /\ run.written <= 1
    /\ run.written = 1 <=> run.pc = "done"
    /\ run.written = 1 =>
          /\ Len(run.outcomes) = Len(run.filtered)
          /\ run.events[Len(run.events)].op = "write"
          /\ run.output.content = run.results
    /\ \A n \in 1..Len(run.events) : run.events[n].op = "write" => n = Len(run.events)

\* an upper bound on the steps main still has to take once both fetches
\* have returned
StepsLeft(s) ==
    CASE s.pc = "filter" -> 8 + 5 * (Len(s.sgx) + Len(s.bursa))
      [] s.pc = "for" -> 6 + 5 * (Len(s.filtered) + 1 - s.i)
      [] s.pc = "download_file" -> 5 + 5 * (Len(s.filtered) + 1 - s.i)
      [] s.pc = "extract_text" -> 4 + 5 * (Len(s.filtered) + 1 - s.i)
      [] s.pc = "extract_key_lines" -> 3 + 5 * (Len(s.filtered) + 1 - s.i)
      [] s.pc = "append" -> 2 + 5 * (Len(s.filtered) + 1 - s.i)
      [] s.pc = "write" -> 1
      [] OTHER -> 0

FetchesSucceeded(s) ==
    s.pc \in {"filter", "for", "download_file", "extract_text", "extract_key_lines",
              "append", "write"}

\* C4: once both fetches have succeeded the run ends with the report written
\* exactly once, after the last filtered announcement, however many of them
\* were skipped; the report is never written before or between announcements.
\* The run ends: until it is done the step at its position can be taken (the
\* guard of that action holds), and every step lowers the number of steps left.
C4_ReportWrittenOnceAfterTheLoop ==
    /\ [](ReportWrittenOnceAtTheEnd)
    /\ [](FetchesSucceeded(run) => StepsLeft(run) > 0 /\ At(run.pc))
    /\ [][FetchesSucceeded(run) =>
            /\ StepsLeft(run') < StepsLeft(run)
            /\ FetchesSucceeded(run') \/ (run'.pc = "done" /\ run'.written = 1)]_vars

\* a finished run that skipped some announcements and kept another
C4_Witness ==
    /\ run.pc = "done"
    /\ run.written = 1
    /\ Len(run.filtered) >= 3
    /\ Cardinality(Succeeded(run)) = 1

\* case-insensitive equality of two characters
SameLetter(c, d) ==
    \/ c = d
    \/ \E k \in 1..Len(UpperCase) : {c, d} = {UpperCase[k], LowerCase[k]}

\* name occurs in title as a literal substring, letter case apart
ContainsIgnoringCase(title, name) ==
    \E at \in 0..(Len(title) - Len(name)) :
        \A k \in 1..Len(name) : SameLetter(title[at + k], name[k])

\* the company name as given on the command line, without the white space
\* around it
StrippedName(s) ==
    LET raw == s.args.company_name
        inner == { k \in 1..Len(raw) : raw[k] \notin Whitespace }
    IN  IF inner = {} THEN << >>
        ELSE SubSeq(raw, CHOOSE a \in inner : \A b \in inner : a <= b,
                         CHOOSE a \in inner : \A b \in inner : a >= b)

FilterHasRun(s) == \E n \in 1..Len(s.events) : s.events[n].op = "filter"

\* C5: the filtered list is exactly the sub-sequence of the fetched
\* announcements (SGX first, then Bursa) whose title contains the stripped
\* company name as a literal substring, letter case apart: nothing matching
\* dropped, nothing else kept, nothing reordered or duplicated, and the list
\* that was filtered left as it was.
C5_FilterKeepsExactlyTheMatchingTitles ==
    FilterHasRun(run) =>
        LET all == run.sgx \o run.bursa
            matching == { k \in 1..Len(all) :
                            ContainsIgnoringCase(all[k].title, StrippedName(run)) }
        IN  /\ run.all_anns = all
            /\ \A k \in 1..Len(run.sgx) : all[k].source = "SGX"
            /\ \A k \in (Len(run.sgx) + 1)..Len(all) : all[k].source = "Bursa"
            /\ Len(run.filtered) = Cardinality(matching)
            /\ \A k \in matching :
                  run.filtered[Cardinality({ j \in matching : j <= k })] = all[k]

\* a filtered list that keeps a title written in another letter case, drops
\* a title between two kept ones and holds items of both exchanges
C5_Witness ==
    /\ FilterHasRun(run)
    /\ Len(run.filtered) >= 2
    /\ run.filtered[1].source = "SGX"
    /\ run.filtered[Len(run.filtered)].source = "Bursa"
    /\ \E k \in 2..(Len(run.all_anns) - 1) :
          ~ContainsIgnoringCase(run.all_anns[k].title, StrippedName(run))
    /\ \E k \in 1..Len(run.filtered) :
          \A at \in 0..(Len(run.filtered[k].title) - Len(StrippedName(run))) :
              SubSeq(run.filtered[k].title, at + 1, at + Len(StrippedName(run)))
                 # StrippedName(run)

KeyTerms(name) ==
    { <<"s","h","a","r","e","h","o","l","d","e","r">>, <<"d","i","r","e","c","t","o","r">>,
      <<"b","o","a","r","d">>, name }

\* the lines of text that mention a key term, by their position
KeyLineNumbers(text, name) ==
    { k \in 1..Len(SplitLines(text)) :
        \E term \in KeyTerms(name) : ContainsIgnoringCase(SplitLines(text)[k], term) }

\* out holds the first key lines of text, trimmed, in their order, at most n
FirstKeyLines(out, text, name, n) ==
    LET lines == SplitLines(text)
        keys == KeyLineNumbers(text, name)
    IN  /\ Len(out) <= n
        /\ Len(out) = Min(n, Cardinality(keys))
        /\ \A k \in keys :
              LET rank == Cardinality({ j \in keys : j <= k })
              IN  rank <= Len(out) => out[rank] = Strip(lines[k])

\* C6: extract_key_lines(text, max_lines=N) returns at most N entries, the
\* first matching lines of text, trimmed, in the order of the text, repeated
\* lines kept; so every record of the report has at most 5 key_lines.
C6_KeyLinesBoundedAndInOrder ==
    /\ unit.phase = "output" =>
          FirstKeyLines(unit.out, unit.text, Strip(unit.args.company_name), unit.max_lines)
    /\ \A k \in 1..Len(run.results) : Len(run.results[k].key_lines) <= 5
    /\ run.pc = "append" => FirstKeyLines(run.kl, run.text, StrippedName(run), 5)

\* a text with more key lines than asked for, among them a repeated line
C6_Witness ==
    /\ unit.phase = "output"
    /\ unit.max_lines = 2
    /\ Cardinality(KeyLineNumbers(unit.text, Strip(unit.args.company_name))) = 3
    /\ Len(unit.out) = 2
    /\ unit.out[1] = unit.out[2]

\* what follows the last "/" of a link
FinalSegment(link) ==
    LET n == CHOOSE m \in 0..Len(link) :
                /\ \A j \in (Len(link) - m + 1)..Len(link) : link[j] # "/"
                /\ m = Len(link) \/ link[Len(link) - m] = "/"
    IN  SubSeq(link, Len(link) - n + 1, Len(link))

\* the name before the unsafe characters are replaced
RawFileName(a) ==
    IF FinalSegment(a.link) # << >> THEN FinalSegment(a.link)
    ELSE a.date \o <<"_">> \o [k \in 1..Min(30, Len(a.title)) |-> a.title[k]]
         \o <<".", "h", "t", "m", "l">>

Forbidden == {"\\", "/", "*", "?", "\"", "<", ">", "|"}

\* C7: the file of a downloaded announcement is named by the final segment of
\* its link or, when that is empty, <date>_<first 30 characters of the
\* title>.html, with every one of \ / * ? " < > | replaced by an underscore;
\* the file lies in the download directory and the record's file field is
\* that name, free of those characters.
C7_FileNamesAreSanitized ==
    \A k \in Succeeded(run) :
        LET name == RecordOf(run, k).file
            raw == RawFileName(run.filtered[k])
        IN  /\ Len(name) = Len(raw)
            /\ \A j \in 1..Len(raw) :
                  name[j] = IF raw[j] \in Forbidden THEN "_" ELSE raw[j]
            /\ \A j \in 1..Len(name) : name[j] \notin Forbidden
            /\ (DOWNLOAD_DIR \o <<"/">> \o name) \in DOMAIN run.files

\* a record whose name was made from the date and a title longer than 30
\* characters, with several unsafe characters, and one named by a final
\* segment that holds a "?"
C7_Witness ==
    /\ \E k \in Succeeded(run) :
          /\ FinalSegment(run.filtered[k].link) = << >>
          /\ Len(run.filtered[k].title) > 30
          /\ Cardinality({ j \in 1..Len(RawFileName(run.filtered[k])) :
                             RawFileName(run.filtered[k])[j] \in Forbidden }) >= 3
    /\ \E k \in Succeeded(run) :
          /\ FinalSegment(run.filtered[k].link) # << >>
          /\ \E j \in 1..Len(FinalSegment(run.filtered[k].link)) :
                FinalSegment(run.filtered[k].link)[j] = "?"

BursaOps == {"bursa_warmup", "bursa_listing"}

\* C8: without a Bursa code fetch_bursa_announcements returns the empty list
\* at once: no warm-up and no listing request is issued, nothing is raised, the
\* run goes on with the SGX announcements alone and every record of the report
\* has source "SGX".
C8_NoCodeNoBursaRequest ==
    (run.args.bursa_code = None \/ run.args.bursa_code = "") =>
        /\ \A n \in 1..Len(run.events) : run.events[n].op \notin BursaOps
        /\ \A n \in 1..Len(run.requests) :
              /\ ~StartsWith(run.requests[n].url, BURSA_BASE_URL)
              /\ DOMAIN run.requests[n].headers = {"User-Agent"}
        /\ run.bursa = << >>
        /\ run.pc \notin {"bursa_warmup", "bursa_listing"}
        /\ run.pc = "aborted" => run.events[Len(run.events)].op = "fetch_sgx"
        /\ FilterHasRun(run) => run.all_anns = run.sgx
        /\ \A k \in 1..Len(run.results) : run.results[k].source = "SGX"
        /\ \A k \in 1..Len(run.output.content) : run.output.content[k].source = "SGX"

\* a finished run without a code whose report holds two records
C8_Witness ==
    /\ run.args.bursa_code = None
    /\ run.pc = "done"
    /\ Len(run.output.content) = 2
    /\ Len(run.requests) = 3

\* position of a step in main
Phase(op) ==
    CASE op = "fetch_sgx" -> 1
      [] op = "bursa_warmup" -> 2
      [] op = "bursa_listing" -> 3
      [] op = "filter" -> 4
      [] op = "write" -> 6
      [] OTHER -> 5

\* position of a step in the sequence run for one announcement
Stage(op) ==
    CASE op = "download_file" -> 1
      [] op = "extract_text" -> 2
      [] op = "extract_key_lines" -> 3
      [] op = "append" -> 4
      [] OTHER -> 0

\* C9: the steps of a run are strictly ordered: the SGX fetch is over before
\* any Bursa request, the warm-up is over (and succeeded) before the listing
\* request, filtering comes after both fetches, and the download, extraction
\* and key-line selection of one filtered announcement are over, or have
\* failed, before the download of the next one begins.
C9_StepsAreStrictlyOrdered ==
    LET ev == run.events
    IN  /\ \A p \in 1..Len(ev), q \in 1..Len(ev) :
              p < q => /\ Phase(ev[p].op) <= Phase(ev[q].op)
                       /\ Phase(ev[p].op) # 5 => Phase(ev[p].op) < Phase(ev[q].op)
        /\ \A q \in 1..Len(ev) :
              /\ ev[q].op \in BursaOps \cup {"filter"} => (ev[1].op = "fetch_sgx" /\ ev[1].ok)
              /\ ev[q].op = "bursa_listing" =>
                    (q > 1 /\ ev[q - 1].op = "bursa_warmup" /\ ev[q - 1].ok)
              /\ (ev[q].op = "filter" /\ Truthy(run.args.bursa_code)) =>
                    (q > 1 /\ ev[q - 1].op = "bursa_listing" /\ ev[q - 1].ok)
              /\ ev[q].op = "download_file" =>
                    /\ q > 1
                    /\ \/ ev[q - 1].op = "filter" /\ ev[q].i = 1
                       \/ ev[q - 1].op = "append" /\ ev[q].i = ev[q - 1].i + 1
                       \/ /\ ev[q - 1].op = "download_file" /\ ~ev[q - 1].ok
                          /\ ev[q].i = ev[q - 1].i + 1
              /\ Stage(ev[q].op) > 1 =>
                    /\ q > 1
                    /\ Stage(ev[q - 1].op) = Stage(ev[q].op) - 1
                    /\ ev[q - 1].ok
                    /\ ev[q - 1].i = ev[q].i
        /\ run.pc \in {"extract_text", "extract_key_lines", "append"} =>
              (ev[Len(ev)].i = run.i /\ Len(run.outcomes) = run.i - 1)

\* a finished run with both Bursa requests, a failed download followed by
\* the next announcement, and an announcement carried through all its steps
C9_Witness ==
    /\ run.pc = "done"
    /\ \E q \in 1..Len(run.events) : run.events[q].op = "bursa_listing"
    /\ \E q \in 2..Len(run.events) :
          /\ run.events[q].op = "download_file"
          /\ run.events[q - 1].op = "download_file"
    /\ \E q \in 2..Len(run.events) :
          /\ run.events[q].op = "download_file"
          /\ run.events[q - 1].op = "append"

====
